---- MODULE Spec2Model ----
(***************************************************************************)
(* The review pipeline of sklearn.ipynb: the bounded JSON loader           *)
(* (get_json), the in-place cleaning of review records (remove_extra,      *)
(* clean_description, clean_reviews), the split into pickled snapshots     *)
(* (get_datasets), training (train_model, train_model_pipe) and            *)
(* evaluation (test_model).                                                *)
(*                                                                         *)
(* A text is a sequence of Unicode code points, a review a function from   *)
(* field names to values, a file system a function from the names of the   *)
(* existing files to their contents.                                       *)
(***************************************************************************)
EXTENDS Integers, Sequences, FiniteSets, TLC

VARIABLES
    fs,        \* the files on disk: name -> content, DOMAIN fs = existing files
    handles,   \* names of the files with an open handle
    reviews,   \* the list the caller holds (the value get_json returned)
    last,      \* outcome of the last call: operation, exception, returned value
    trained,   \* outcome of the most recent call of train_model or train_model_pipe
    review,    \* the single review clean_description is applied to
    given,     \* the text of that review as it was passed in
    step       \* "raw" before clean_description ran on review, "cleaned" after

vars == <<fs, handles, reviews, last, trained, review, given, step>>

(***************************************************************************)
(* Bounds of the model.                                                    *)
(***************************************************************************)
\* longest input text given to clean_description
MaxLen == 5

\* most lines the input file holds
MaxLines == 3

\* number of reviews read per run: the notebook's dataset_size (20000),
\* scaled down so that files shorter than, as long as and longer than
\* dataset_size are all within MaxLines
dataset_size == 2

(***************************************************************************)
(* Text: str.lower, the character filter, str.split and str.join.          *)
(***************************************************************************)
\* code points the input texts are drawn from:
\* 'n' 'o' (letters, spelling the kept word 'no' and the common word 'on'),
\* 'N' (upper case), ' ', '.' (punctuation), '\n' (white space that is not
\* a space), '1' (digit), U+00C9 (non-ASCII capital)
Alphabet == {110, 111, 78, 32, 46, 10, 49, 201}

\* str.lower on one code point: ASCII and Latin-1 capitals move by 32,
\* U+0130 becomes 'i' followed by U+0307, U+212A (Kelvin sign) becomes 'k'
LowerChar(c) ==
    IF c >= 65 /\ c <= 90 THEN <<c + 32>>
    ELSE IF c >= 192 /\ c <= 222 /\ c # 215 THEN <<c + 32>>
    ELSE IF c = 304 THEN <<105, 775>>
    ELSE IF c = 8490 THEN <<107>>
    ELSE <<c>>

RECURSIVE lower(_)
lower(s) == IF s = <<>> THEN <<>> ELSE LowerChar(Head(s)) \o lower(Tail(s))

\* the filter with the lower limit of the range left out
KeepChar_noLowerLimit(c) == c <= 122 \/ c = 32

\* lambda i: 97 <= ord(i) <= 122 or ord(i) == 32
KeepChar(c) == (97 <= c /\ c <= 122) \/ c = 32

\* the characters str.split() treats as separators (str.isspace)
IsSpace(c) ==
    c \in {9, 10, 11, 12, 13, 28, 29, 30, 31, 32, 133, 160, 5760, 8232, 8233,
           8239, 8287, 12288} \/ (c >= 8192 /\ c <= 8202)

\* str.split(): the maximal runs of non-separator characters, in order;
\* cur is the word being read
RECURSIVE SplitFrom(_, _)
SplitFrom(s, cur) ==
    IF s = <<>> THEN (IF cur = <<>> THEN <<>> ELSE <<cur>>)
    ELSE IF IsSpace(Head(s))
         THEN (IF cur = <<>> THEN <<>> ELSE <<cur>>) \o SplitFrom(Tail(s), <<>>)
         ELSE SplitFrom(Tail(s), Append(cur, Head(s)))

split(s) == SplitFrom(s, <<>>)

\* ' '.join(words)
RECURSIVE join(_)
join(words) ==
    IF words = <<>> THEN <<>>
    ELSE IF Len(words) = 1 THEN words[1]
    ELSE words[1] \o <<32>> \o join(Tail(words))

common_words == {
    \* the, be, to, of, and, a, in, that, have, i
    <<116,104,101>>, <<98,101>>, <<116,111>>, <<111,102>>, <<97,110,100>>, <<97>>, <<105,110>>, <<116,104,97,116>>, <<104,97,118,101>>, <<105>>,
    \* it, for, on, with, he, as, you, do, at
    <<105,116>>, <<102,111,114>>, <<111,110>>, <<119,105,116,104>>, <<104,101>>, <<97,115>>, <<121,111,117>>, <<100,111>>, <<97,116>>,
    \* this, his, by, from, them, we, say, her, she
    <<116,104,105,115>>, <<104,105,115>>, <<98,121>>, <<102,114,111,109>>, <<116,104,101,109>>, <<119,101>>, <<115,97,121>>, <<104,101,114>>, <<115,104,101>>,
    \* or, an, will, my, one, or, would, there, their, what
    <<111,114>>, <<97,110>>, <<119,105,108,108>>, <<109,121>>, <<111,110,101>>, <<111,114>>, <<119,111,117,108,100>>, <<116,104,101,114,101>>, <<116,104,101,105,114>>, <<119,104,97,116>>,
    \* so, up, if, about, who, get, which, go, me
    <<115,111>>, <<117,112>>, <<105,102>>, <<97,98,111,117,116>>, <<119,104,111>>, <<103,101,116>>, <<119,104,105,99,104>>, <<103,111>>, <<109,101>>,
    \* when, make, can, time, just, him, know, take
    <<119,104,101,110>>, <<109,97,107,101>>, <<99,97,110>>, <<116,105,109,101>>, <<106,117,115,116>>, <<104,105,109>>, <<107,110,111,119>>, <<116,97,107,101>>,
    \* people, year, your, some, could, them, see, other
    <<112,101,111,112,108,101>>, <<121,101,97,114>>, <<121,111,117,114>>, <<115,111,109,101>>, <<99,111,117,108,100>>, <<116,104,101,109>>, <<115,101,101>>, <<111,116,104,101,114>>,
    \* than, then, now, look, only, come, its, think, also
    <<116,104,97,110>>, <<116,104,101,110>>, <<110,111,119>>, <<108,111,111,107>>, <<111,110,108,121>>, <<99,111,109,101>>, <<105,116,115>>, <<116,104,105,110,107>>, <<97,108,115,111>>,
    \* back, after, use, two, how, our, work, first, way
    <<98,97,99,107>>, <<97,102,116,101,114>>, <<117,115,101>>, <<116,119,111>>, <<104,111,119>>, <<111,117,114>>, <<119,111,114,107>>, <<102,105,114,115,116>>, <<119,97,121>>,
    \* even, new, want, because, any, these, give, day, us
    <<101,118,101,110>>, <<110,101,119>>, <<119,97,110,116>>, <<98,101,99,97,117,115,101>>, <<97,110,121>>, <<116,104,101,115,101>>, <<103,105,118,101>>, <<100,97,121>>, <<117,115>>
    }

NotCommon(word) == word \notin common_words

\* the words the text of Part 2 says are not removed:
\* not, but, out, like, no, into, good, over, well, most
kept_words == {
    <<110,111,116>>, <<98,117,116>>, <<111,117,116>>, <<108,105,107,101>>,
    <<110,111>>, <<105,110,116,111>>, <<103,111,111,100>>, <<111,118,101,114>>,
    <<119,101,108,108>>, <<109,111,115,116>>
    }

\* the cleaning with the common words removed before the text is lowered
\* and filtered
clean_description_removeFirst(r) ==
    LET result    == SelectSeq(split(r["text"]), NotCommon)
        low       == lower(join(result))
        all_ascii == SelectSeq(low, KeepChar)
    IN  [r EXCEPT !["text"] = join(split(all_ascii))]

\* a word that is neither common nor one of the exempted 'no' and 'not'
NotInTop100(word) == NotCommon(word) /\ word \notin {<<110,111>>, <<110,111,116>>}

\* the cleaning with the exempted words 'no' and 'not' removed as well
clean_description_noExemption(r) ==
    LET low       == lower(r["text"])
        all_ascii == SelectSeq(low, KeepChar)
        word_list == split(all_ascii)
        result    == SelectSeq(word_list, NotInTop100)
    IN  [r EXCEPT !["text"] = join(result)]

\* clean_description(review): the review with its text rewritten
clean_description(r) ==
    LET low       == lower(r["text"])
        all_ascii == SelectSeq(low, KeepChar)
        word_list == split(all_ascii)
        result    == SelectSeq(word_list, NotCommon)
    IN  [r EXCEPT !["text"] = join(result)]

(***************************************************************************)
(* Files.                                                                  *)
(***************************************************************************)
review_input_file == "data/review.json"
training_data_file == "training_data.pickle"
test_data_file == "test_data.pickle"
model_file == "model.pickle"

\* open(name, 'wb') creates the file or empties it
Truncated(files, name) ==
    [n \in DOMAIN files \cup {name} |-> IF n = name THEN <<>> ELSE files[n]]

\* pickle.dump(obj, file) on a file just opened 'wb'
Dumped(files, name, obj) ==
    [n \in DOMAIN files \cup {name} |-> IF n = name THEN <<obj>> ELSE files[n]]

\* entering "with open(name, ...) as file": the handle is open
WithEnter(h, name) == h \cup {name}

\* a close() at the end of the block instead of a with statement: an
\* exception skips it
WithExit_skippedByException(h, name, raised) ==
    IF raised = "none" THEN h \ {name} ELSE h

\* leaving the with block, by its end or by the exception `raised`:
\* the handle is closed
WithExit(h, name, raised) == h \ {name}

(***************************************************************************)
(* get_json                                                                *)
(***************************************************************************)
\* a line of the input file: a JSON object (value is the record it spells)
\* or text that is not JSON
ObjectLine(rec) == [kind |-> "object", value |-> rec]
MalformedLine == [kind |-> "malformed", value |-> <<>>]

\* json_file.readline() at position pos: the line, or b'' at end of file
readline(lines, pos) ==
    IF pos <= Len(lines) THEN lines[pos] ELSE [kind |-> "empty", value |-> <<>>]

\* json.loads(line)
json_loads(line) ==
    IF line["kind"] = "object"
    THEN [raised |-> "none", value |-> line["value"]]
    ELSE [raised |-> "JSONDecodeError", value |-> <<>>]

\* the loop with the test seen <= dataset_size: one line too many
RECURSIVE ReadLoop_oneMore(_, _, _)
ReadLoop_oneMore(lines, seen, result) ==
    IF seen <= dataset_size
    THEN LET parsed == json_loads(readline(lines, seen + 1))
         IN  IF parsed.raised # "none"
             THEN [raised |-> parsed.raised, value |-> <<>>]
             ELSE ReadLoop_oneMore(lines, seen + 1, Append(result, parsed.value))
    ELSE [raised |-> "none", value |-> result]

\* the loop with a recovery: a line that does not parse ends the loop and
\* what was read so far is returned
RECURSIVE ReadLoop_stopAtBadLine(_, _, _)
ReadLoop_stopAtBadLine(lines, seen, result) ==
    IF seen < dataset_size
    THEN LET parsed == json_loads(readline(lines, seen + 1))
         IN  IF parsed.raised # "none"
             THEN [raised |-> "none", value |-> result]
             ELSE ReadLoop_stopAtBadLine(lines, seen + 1, Append(result, parsed.value))
    ELSE [raised |-> "none", value |-> result]

\* the while loop of get_json after `seen` iterations
RECURSIVE ReadLoop(_, _, _)
ReadLoop(lines, seen, result) ==
    IF seen < dataset_size
    THEN LET parsed == json_loads(readline(lines, seen + 1))
         IN  IF parsed.raised # "none"
             THEN [raised |-> parsed.raised, value |-> <<>>]
             ELSE ReadLoop(lines, seen + 1, Append(result, parsed.value))
    ELSE [raised |-> "none", value |-> result]

\* get_json(filename) with the files `files` and the open handles h
get_json(files, h, filename) ==
    IF filename \notin DOMAIN files
    THEN [raised |-> "FileNotFoundError", value |-> <<>>, handles |-> h]
    ELSE LET loop == ReadLoop(files[filename], 0, <<>>)
         IN  [raised |-> loop.raised, value |-> loop.value,
              handles |-> WithExit(WithEnter(h, filename), filename, loop.raised)]

(***************************************************************************)
(* remove_extra, clean_reviews                                             *)
(***************************************************************************)
RawFields == {"review_id", "user_id", "business_id", "stars", "useful",
              "funny", "cool", "text", "date"}

\* the pops with 'stars' among them
Popped_withStars == <<"review_id", "user_id", "business_id", "date", "stars",
                      "useful", "funny", "cool">>

\* the pops with 'date' forgotten
Popped_withoutDate == <<"review_id", "user_id", "business_id", "useful",
                        "funny", "cool">>

\* the fields remove_extra pops, in its order
Popped == <<"review_id", "user_id", "business_id", "date", "useful",
            "funny", "cool">>

\* review.pop(key)
pop(r, key) == [f \in DOMAIN r \ {key} |-> r[f]]

\* remove_extra(review): the pops in order; a missing key raises KeyError
\* and leaves the earlier pops done
RECURSIVE PopAll(_, _)
PopAll(r, keys) ==
    IF keys = <<>> THEN [raised |-> "none", review |-> r]
    ELSE IF Head(keys) \notin DOMAIN r THEN [raised |-> "KeyError", review |-> r]
    ELSE PopAll(pop(r, Head(keys)), Tail(keys))

remove_extra(r) == PopAll(r, Popped)

\* clean_description as called on a review that may lack its text
clean_description_call(r) ==
    IF "text" \notin DOMAIN r THEN [raised |-> "KeyError", review |-> r]
    ELSE [raised |-> "none", review |-> clean_description(r)]

\* list(map(remove_extra, reviews)): the reviews are changed in place, one
\* after the other from position i; an exception ends the map
RECURSIVE MapRemoveExtra(_, _)
MapRemoveExtra(rs, i) ==
    IF i > Len(rs) THEN [raised |-> "none", reviews |-> rs]
    ELSE LET out == remove_extra(rs[i])
             now == [rs EXCEPT ![i] = out.review]
         IN  IF out.raised # "none"
             THEN [raised |-> out.raised, reviews |-> now]
             ELSE MapRemoveExtra(now, i + 1)

\* list(map(clean_description, reviews))
RECURSIVE MapCleanDescription(_, _)
MapCleanDescription(rs, i) ==
    IF i > Len(rs) THEN [raised |-> "none", reviews |-> rs]
    ELSE LET out == clean_description_call(rs[i])
             now == [rs EXCEPT ![i] = out.review]
         IN  IF out.raised # "none"
             THEN [raised |-> out.raised, reviews |-> now]
             ELSE MapCleanDescription(now, i + 1)

\* clean_reviews(reviews)
clean_reviews(rs) ==
    LET removed == MapRemoveExtra(rs, 1)
    IN  IF removed.raised # "none" THEN removed
        ELSE MapCleanDescription(removed.reviews, 1)

(***************************************************************************)
(* get_datasets                                                            *)
(***************************************************************************)
Min(a, b) == IF a < b THEN a ELSE b

\* the second part taken from one position early: data[mid - 1:]
SliceFrom_overlap(data, mid) == SubSeq(data, Min(mid, Len(data)), Len(data))

\* data[:mid] and data[mid:]
SliceTo(data, mid) == SubSeq(data, 1, Min(mid, Len(data)))
SliceFrom(data, mid) == SubSeq(data, Min(mid, Len(data)) + 1, Len(data))

\* where get_datasets breaks the list
Mid == dataset_size \div 2

get_datasets(files, h) ==
    LET loaded == get_json(files, h, review_input_file)
    IN  IF loaded.raised # "none"
        THEN [raised |-> loaded.raised, value |-> <<>>, fs |-> files,
              handles |-> loaded.handles]
        ELSE
        LET cleaned == clean_reviews(loaded.value)
        IN  IF cleaned.raised # "none"
            THEN [raised |-> cleaned.raised, value |-> <<>>, fs |-> files,
                  handles |-> loaded.handles]
            ELSE
            LET data          == cleaned.reviews
                training_data == SliceTo(data, Mid)
                test_data     == SliceFrom(data, Mid)
                h1     == WithEnter(loaded.handles, training_data_file)
                files1 == Dumped(Truncated(files, training_data_file),
                                 training_data_file, training_data)
                h2     == WithExit(h1, training_data_file, "none")
                h3     == WithEnter(h2, test_data_file)
                files2 == Dumped(Truncated(files1, test_data_file),
                                 test_data_file, test_data)
                h4     == WithExit(h3, test_data_file, "none")
            IN  [raised |-> "none", value |-> <<training_data, test_data>>,
                 fs |-> files2, handles |-> h4]

(***************************************************************************)
(* train_model, train_model_pipe, test_model.                              *)
(* The library is modelled by what the notebook relies on: CountVectorizer *)
(* raises ValueError on an empty vocabulary (its tokens are the words of   *)
(* two or more characters), SGDClassifier raises ValueError when the       *)
(* labels hold fewer than two classes, and a fitted model is the record of *)
(* what it was fitted with and on.                                         *)
(***************************************************************************)
\* the algorithms of the comparison in Part 5, by name
Algorithms == {"MultinomialNB", "DecisionTreeClassifier", "SGDClassifier"}

\* with open(name, 'rb') as file: data = pickle.load(file)
LoadPickle(files, h, name) ==
    IF name \notin DOMAIN files
    THEN [raised |-> "FileNotFoundError", value |-> <<>>, handles |-> h]
    ELSE LET raised == IF files[name] = <<>> THEN "EOFError" ELSE "none"
         IN  [raised |-> raised,
              value |-> IF raised = "none" THEN files[name][1] ELSE <<>>,
              handles |-> WithExit(WithEnter(h, name), name, raised)]

\* int(x) of a number held in tenths
int(x) == x \div 10

\* list(map(lambda x: x['text'], data)), list(map(lambda x: int(x['stars']), data))
TextOf(data) == [i \in DOMAIN data |-> data[i]["text"]]
StarsOf(data) == [i \in DOMAIN data |-> int(data[i]["stars"])]

\* the vocabulary CountVectorizer() learns from the texts
Vocabulary(text) ==
    {w \in UNION {{split(text[i])[j] : j \in DOMAIN split(text[i])} : i \in DOMAIN text} :
        Len(w) >= 2}

\* CountVectorizer().fit_transform(text)
VectorizerFit(text) == IF Vocabulary(text) = {} THEN "ValueError" ELSE "none"

\* algorithm.fit(train_data, stars)
AlgorithmFit(algorithm, stars) ==
    IF algorithm = "SGDClassifier" /\ Cardinality({stars[i] : i \in DOMAIN stars}) < 2
    THEN "ValueError" ELSE "none"

\* Pipeline([...]).fit(text, stars): the vectorizer, then the algorithm
PipelineFit(algorithm, text, stars) ==
    IF VectorizerFit(text) # "none" THEN VectorizerFit(text)
    ELSE AlgorithmFit(algorithm, stars)

\* what is pickled: a fitted Pipeline, or the tuple (model, count_vect, transformer)
Fitted(kind, algorithm, text, stars) ==
    [kind |-> kind, algorithm |-> algorithm, text |-> text, stars |-> stars]

\* the fit done before model_file is opened: a fit that raises leaves the
\* files as they are
FitAndDump_fitFirst(files, h, raised, bundle) ==
    IF raised # "none"
    THEN [raised |-> raised, value |-> <<>>, fs |-> files, handles |-> h]
    ELSE [raised |-> raised, value |-> <<>>,
          fs |-> Dumped(Truncated(files, model_file), model_file, bundle),
          handles |-> WithExit(WithEnter(h, model_file), model_file, raised)]

\* the with block opening model_file 'ab': the bundle is added after what
\* the file holds, and pickle.load reads the first bundle of the file
FitAndDump_appending(files, h, raised, bundle) ==
    LET held == IF model_file \in DOMAIN files THEN files[model_file] ELSE <<>>
    IN  [raised |-> raised, value |-> <<>>,
         fs |-> [n \in DOMAIN files \cup {model_file} |->
                    IF n # model_file THEN files[n]
                    ELSE IF raised = "none" THEN Append(held, bundle) ELSE held],
         handles |-> WithExit(WithEnter(h, model_file), model_file, raised)]

\* the with block opening training_data_file instead of model_file
FitAndDump_intoTrainingFile(files, h, raised, bundle) ==
    LET opened == Truncated(files, training_data_file)
        h1     == WithEnter(h, training_data_file)
    IN  [raised |-> raised, value |-> <<>>,
         fs |-> IF raised = "none" THEN Dumped(opened, training_data_file, bundle)
                ELSE opened,
         handles |-> WithExit(h1, training_data_file, raised)]

\* the with block that opens model_file 'wb', fits and dumps
FitAndDump(files, h, raised, bundle) ==
    LET opened == Truncated(files, model_file)
        h1     == WithEnter(h, model_file)
    IN  [raised |-> raised, value |-> <<>>,
         fs |-> IF raised = "none" THEN Dumped(opened, model_file, bundle) ELSE opened,
         handles |-> WithExit(h1, model_file, raised)]

train_model(files, h, algorithm) ==
    LET loaded == LoadPickle(files, h, training_data_file)
    IN  IF loaded.raised # "none"
        THEN [raised |-> loaded.raised, value |-> <<>>, fs |-> files,
              handles |-> loaded.handles]
        ELSE
        LET text  == TextOf(loaded.value)
            stars == StarsOf(loaded.value)
        IN  IF VectorizerFit(text) # "none"
            THEN [raised |-> VectorizerFit(text), value |-> <<>>, fs |-> files,
                  handles |-> loaded.handles]
            ELSE FitAndDump(files, loaded.handles, AlgorithmFit(algorithm, stars),
                            Fitted("tuple", algorithm, text, stars))

train_model_pipe(files, h, algorithm) ==
    LET loaded == LoadPickle(files, h, training_data_file)
    IN  IF loaded.raised # "none"
        THEN [raised |-> loaded.raised, value |-> <<>>, fs |-> files,
              handles |-> loaded.handles]
        ELSE
        LET text  == TextOf(loaded.value)
            stars == StarsOf(loaded.value)
        IN  FitAndDump(files, loaded.handles, PipelineFit(algorithm, text, stars),
                       Fitted("Pipeline", algorithm, text, stars))

\* metrics.accuracy_score(stars, model.predict(text)): the score of this
\* model on these texts and labels
accuracy_score(model, text, stars) ==
    [model |-> model, text |-> text, stars |-> stars]

\* test_model(verbose); verbose only selects what is printed
test_model(files, h) ==
    LET model == LoadPickle(files, h, model_file)
    IN  IF model.raised # "none"
        THEN [raised |-> model.raised, value |-> <<>>, fs |-> files,
              handles |-> model.handles]
        ELSE
        LET data == LoadPickle(files, model.handles, test_data_file)
        IN  IF data.raised # "none"
            THEN [raised |-> data.raised, value |-> <<>>, fs |-> files,
                  handles |-> data.handles]
            ELSE IF model.value["kind"] # "Pipeline"
            THEN [raised |-> "AttributeError", value |-> <<>>, fs |-> files,
                  handles |-> data.handles]
            ELSE [raised |-> "none",
                  value |-> accuracy_score(model.value, TextOf(data.value),
                                           StarsOf(data.value)),
                  fs |-> files, handles |-> data.handles]

(***************************************************************************)
(* Specification of clean_description alone: a review with any text of at  *)
(* most MaxLen characters of Alphabet is cleaned once.                     *)
(***************************************************************************)
\* no call was made yet
NoCall == [op |-> "none", arg |-> "", raised |-> "none", value |-> <<>>]

RECURSIVE TextsUpTo(_)
TextsUpTo(n) ==
    IF n = 0 THEN {<<>>}
    ELSE LET shorter == TextsUpTo(n - 1)
         IN  shorter \cup {Append(t, c) : t \in {u \in shorter : Len(u) = n - 1}, c \in Alphabet}

InitClean ==
    /\ fs = <<>>
    /\ handles = {}
    /\ reviews = <<>>
    /\ last = NoCall
    /\ trained = NoCall
    /\ \E t \in TextsUpTo(MaxLen) :
          /\ review = [stars |-> 50, text |-> t]
          /\ given = t
    /\ step = "raw"

CleanDescription ==
    /\ step = "raw"
    /\ review' = clean_description(review)
    /\ step' = "cleaned"
    /\ UNCHANGED <<fs, handles, reviews, last, trained, given>>

NextClean == CleanDescription

SpecClean == InitClean /\ [][NextClean]_vars

(***************************************************************************)
(* Specification of the notebook: an input file of at most MaxLines lines  *)
(* (or none), and any sequence of calls of its functions.                  *)
(***************************************************************************)
\* 'No on.' rated 1.0: cleans to 'no'
ReviewA ==
    [review_id |-> "r1", user_id |-> "u1", business_id |-> "b1", stars |-> 10,
     useful |-> 6, funny |-> 1, cool |-> 0,
     text |-> <<78, 111, 32, 111, 110, 46>>, date |-> "2013-05-07 04:34:36"]

\* 'On 1' rated 4.5: cleans to the empty text
ReviewB ==
    [review_id |-> "r2", user_id |-> "u2", business_id |-> "b2", stars |-> 45,
     useful |-> 0, funny |-> 0, cool |-> 0,
     text |-> <<79, 110, 32, 49>>, date |-> "2017-01-14 21:30:33"]

\* a record without its 'cool' field
ReviewC == pop([ReviewA EXCEPT !["stars"] = 30], "cool")

Lines == {ObjectLine(ReviewA), ObjectLine(ReviewB), ObjectLine(ReviewC), MalformedLine}

RECURSIVE LinesUpTo(_)
LinesUpTo(n) ==
    IF n = 0 THEN {<<>>}
    ELSE LET shorter == LinesUpTo(n - 1)
         IN  shorter \cup {Append(f, l) : f \in {g \in shorter : Len(g) = n - 1}, l \in Lines}

Init ==
    /\ \/ fs = <<>>
       \/ \E lines \in LinesUpTo(MaxLines) : fs = [n \in {review_input_file} |-> lines]
    /\ handles = {}
    /\ reviews = <<>>
    /\ last = NoCall
    /\ trained = NoCall
    /\ review = [stars |-> 50, text |-> <<>>]
    /\ given = <<>>
    /\ step = "raw"

\* result = get_json(filename): the caller holds the list returned
GetJson ==
    \E filename \in {review_input_file} :
        LET out == get_json(fs, handles, filename)
        IN  /\ handles' = out.handles
            /\ reviews' = IF out.raised = "none" THEN out.value ELSE reviews
            /\ last' = [op |-> "get_json", arg |-> filename, raised |-> out.raised,
                        value |-> out.value]
            /\ UNCHANGED <<fs, trained, review, given, step>>

\* clean_reviews(result) on the list the caller holds
CleanReviews ==
    LET out == clean_reviews(reviews)
    IN  /\ reviews' = out.reviews
        /\ last' = [op |-> "clean_reviews", arg |-> "", raised |-> out.raised,
                    value |-> <<>>]
        /\ UNCHANGED <<fs, handles, trained, review, given, step>>

GetDatasets ==
    LET out == get_datasets(fs, handles)
    IN  /\ fs' = out.fs
        /\ handles' = out.handles
        /\ last' = [op |-> "get_datasets", arg |-> "", raised |-> out.raised,
                    value |-> out.value]
        /\ UNCHANGED <<reviews, trained, review, given, step>>

TrainModel ==
    \E algorithm \in Algorithms :
        LET out == train_model(fs, handles, algorithm)
        IN  /\ fs' = out.fs
            /\ handles' = out.handles
            /\ last' = [op |-> "train_model", arg |-> algorithm,
                        raised |-> out.raised, value |-> out.value]
            /\ trained' = last'
            /\ UNCHANGED <<reviews, review, given, step>>

TrainModelPipe ==
    \E algorithm \in Algorithms :
        LET out == train_model_pipe(fs, handles, algorithm)
        IN  /\ fs' = out.fs
            /\ handles' = out.handles
            /\ last' = [op |-> "train_model_pipe", arg |-> algorithm,
                        raised |-> out.raised, value |-> out.value]
            /\ trained' = last'
            /\ UNCHANGED <<reviews, review, given, step>>

TestModel ==
    LET out == test_model(fs, handles)
    IN  /\ fs' = out.fs
        /\ handles' = out.handles
        /\ last' = [op |-> "test_model", arg |-> "", raised |-> out.raised,
                    value |-> out.value]
        /\ UNCHANGED <<reviews, trained, review, given, step>>

Next ==
    \/ GetJson
    \/ CleanReviews
    \/ GetDatasets
    \/ TrainModel
    \/ TrainModelPipe
    \/ TestModel

Spec == Init /\ [][Next]_vars

(***************************************************************************)
(* Helpers of the properties.                                              *)
(***************************************************************************)
Range(f) == {f[i] : i \in DOMAIN f}

\* the words of s delimited by single spaces (s.split(' ')), empty ones included
RECURSIVE WordsFrom(_, _)
WordsFrom(s, cur) ==
    IF s = <<>> THEN <<cur>>
    ELSE IF Head(s) = 32 THEN <<cur>> \o WordsFrom(Tail(s), <<>>)
         ELSE WordsFrom(Tail(s), Append(cur, Head(s)))

Words(s) == WordsFrom(s, <<>>)

\* number of occurrences of w in the list ws
Count(w, ws) == Cardinality({i \in DOMAIN ws : ws[i] = w})

(***************************************************************************)
(* Properties of clean_description (checked under SpecClean).              *)
(***************************************************************************)
\* C2: after clean_description the text holds only 'a'..'z' and ' '
C2_OnlyLowercaseAndSpaces ==
    step = "cleaned" =>
        \A i \in DOMAIN review["text"] :
            review["text"][i] \in (97..122) \cup {32}

\* an upper case letter, a digit, a full stop, a newline and a non-ASCII
\* letter were given, and something is left of the text
C2_Witness ==
    /\ step = "cleaned"
    /\ {78, 49, 46, 10, 201} \cap Range(given) # {}
    /\ \E i \in DOMAIN given : given[i] \notin (97..122) \cup {32}
    /\ review["text"] # <<>>

\* C3: after clean_description no space-separated word of the text is a
\* member of common_words
C3_NoCommonWordLeft ==
    step = "cleaned" =>
        \A w \in Range(Words(review["text"])) : w \notin common_words

\* the text given held a common word and a word that is kept
C3_Witness ==
    /\ step = "cleaned"
    /\ \E w \in Range(Words(given)) : w \in common_words
    /\ review["text"] # <<>>

\* C7 as stated: a word of kept_words that occurs in the text given as a
\* lowercase word delimited by spaces occurs in the cleaned text the same
\* number of times
C7_KeptWordsSameCount ==
    step = "cleaned" =>
        \A w \in kept_words :
            Count(w, Words(given)) >= 1 =>
                Count(w, Words(review["text"])) = Count(w, Words(given))

\* C7 amended: none of the words of kept_words is a common word, and such a
\* word occurs in the cleaned text at least as often as it occurs in the
\* text given as a lowercase word delimited by spaces
C7_KeptWordsNotRemoved ==
    /\ kept_words \cap common_words = {}
    /\ step = "cleaned" =>
          LET before == Words(given)
              after  == Words(review["text"])
          IN  \A w \in kept_words : Count(w, after) >= Count(w, before)

\* the text given held a kept word next to a common word, which was removed
C7_Witness ==
    /\ step = "cleaned"
    /\ \E w \in kept_words : Count(w, Words(given)) >= 1
    /\ \E w \in common_words : Count(w, Words(given)) >= 1
    /\ \A w \in common_words : Count(w, Words(review["text"])) = 0

(***************************************************************************)
(* Properties of the loader and of the cleaning of a list (checked under   *)
(* Spec).                                                                  *)
(***************************************************************************)
\* the input file exists and its first dataset_size lines are JSON objects
EnoughObjectLines ==
    /\ review_input_file \in DOMAIN fs
    /\ Len(fs[review_input_file]) >= dataset_size
    /\ \A i \in 1..dataset_size : fs[review_input_file][i]["kind"] = "object"

\* the input file exists, and it is shorter than dataset_size lines or one
\* of the lines get_json reads is not JSON
ShortOrMalformed ==
    /\ review_input_file \in DOMAIN fs
    /\ ~EnoughObjectLines

\* C1: with at least dataset_size lines, each a JSON object, get_json
\* returns exactly dataset_size records, the i-th the parse of the i-th line
C1_LoaderReturnsFirstLines ==
    (/\ last["op"] = "get_json"
     /\ review_input_file \in DOMAIN fs
     /\ Len(fs[review_input_file]) >= dataset_size
     /\ \A i \in DOMAIN fs[review_input_file] :
            fs[review_input_file][i]["kind"] = "object")
    => /\ last["raised"] = "none"
       /\ Len(last["value"]) = dataset_size
       /\ reviews = last["value"]
       /\ \A i \in 1..dataset_size :
              last["value"][i] = fs[review_input_file][i]["value"]

\* get_json returned from a file longer than dataset_size whose lines differ
C1_Witness ==
    /\ last["op"] = "get_json"
    /\ last["raised"] = "none"
    /\ Len(fs[review_input_file]) > dataset_size
    /\ \A i \in DOMAIN fs[review_input_file] :
           fs[review_input_file][i]["kind"] = "object"
    /\ last["value"][1] # last["value"][2]
    /\ fs[review_input_file][dataset_size + 1] # fs[review_input_file][dataset_size]

\* C4: clean_reviews leaves the number and the order of the records and the
\* 'stars' of every record as they were, whether it returns or raises
C4_StarsPreserved ==
    [][CleanReviews =>
          /\ Len(reviews') = Len(reviews)
          /\ \A i \in DOMAIN reviews :
                 "stars" \in DOMAIN reviews[i] =>
                     /\ "stars" \in DOMAIN reviews'[i]
                     /\ reviews'[i]["stars"] = reviews[i]["stars"]]_vars

\* clean_reviews returned on a list of records with different ratings
C4_Witness ==
    /\ last["op"] = "clean_reviews"
    /\ last["raised"] = "none"
    /\ Len(reviews) >= 2
    /\ reviews[1]["stars"] # reviews[2]["stars"]
    /\ reviews[1]["text"] # reviews[2]["text"]

\* C9: a record with the nine raw fields has exactly 'stars' and 'text'
\* once clean_reviews has returned
C9_OnlyStarsAndText ==
    [][(CleanReviews /\ last'["raised"] = "none") =>
          \A i \in DOMAIN reviews :
              DOMAIN reviews[i] = RawFields =>
                  DOMAIN reviews'[i] = {"stars", "text"}]_vars

\* clean_reviews returned on a list of raw records
C9_Witness ==
    /\ last["op"] = "clean_reviews"
    /\ last["raised"] = "none"
    /\ Len(reviews) = dataset_size
    /\ \A i \in DOMAIN reviews : DOMAIN reviews[i] = {"stars", "text"}

\* C6: no file handle is open between the operations, whether the last
\* one returned or raised
C6_NoHandleLeftOpen == handles = {}

\* the fit raised inside the scope that holds model_file open
C6_Witness ==
    /\ last["op"] = "train_model_pipe"
    /\ last["raised"] = "ValueError"
    /\ model_file \in DOMAIN fs
    /\ fs[model_file] = <<>>
    /\ handles = {}

\* the cleaned list get_datasets works on: the first dataset_size lines,
\* parsed, reduced to 'stars' and 'text', the text cleaned
CleanedRecord(line) ==
    clean_description([f \in {"stars", "text"} |-> line["value"][f]])

CleanedList == [i \in 1..dataset_size |-> CleanedRecord(fs[review_input_file][i])]

\* C8: training_data is the first dataset_size // 2 cleaned records,
\* test_data the remaining ones, together the cleaned list in order, and
\* the two snapshot files hold these two lists
C8_SplitInTwo ==
    (last["op"] = "get_datasets" /\ last["raised"] = "none") =>
        LET training_data == last["value"][1]
            test_data     == last["value"][2]
        IN  /\ Len(training_data) = dataset_size \div 2
            /\ Len(test_data) = dataset_size - dataset_size \div 2
            /\ training_data \o test_data = CleanedList
            /\ fs[training_data_file] = <<training_data>>
            /\ fs[test_data_file] = <<test_data>>

\* get_datasets returned two parts that are not empty and differ
C8_Witness ==
    /\ last["op"] = "get_datasets"
    /\ last["raised"] = "none"
    /\ last["value"][1] # <<>>
    /\ last["value"][2] # <<>>
    /\ last["value"][1][1] # last["value"][2][1]
    /\ fs[training_data_file] = <<last["value"][1]>>

\* C10: on a file shorter than dataset_size lines, or with a line that is
\* not JSON among those read, get_json raises and returns no list (a list
\* it returns has dataset_size records), and get_datasets raises the same
\* error and leaves both snapshot files unwritten
C10_NoRecovery ==
    /\ (last["op"] = "get_json" /\ ShortOrMalformed) =>
           /\ last["raised"] = "JSONDecodeError"
           /\ last["value"] = <<>>
    /\ (last["op"] = "get_json" /\ last["raised"] = "none") =>
           Len(last["value"]) = dataset_size
    /\ (last["op"] = "get_datasets" /\ ShortOrMalformed) =>
           /\ last["raised"] = "JSONDecodeError"
           /\ training_data_file \notin DOMAIN fs
           /\ test_data_file \notin DOMAIN fs

\* get_datasets raised on a file of JSON objects that is too short
C10_Witness ==
    /\ last["op"] = "get_datasets"
    /\ last["raised"] = "JSONDecodeError"
    /\ review_input_file \in DOMAIN fs
    /\ Len(fs[review_input_file]) >= 1
    /\ Len(fs[review_input_file]) < dataset_size
    /\ \A i \in DOMAIN fs[review_input_file] :
           fs[review_input_file][i]["kind"] = "object"
    /\ training_data_file \notin DOMAIN fs

(***************************************************************************)
(* Properties of training and evaluation (checked under Spec).             *)
(***************************************************************************)
\* C11: whichever of train_model and train_model_pipe wrote the model
\* file, test_model can call predict on what it loads and returns the
\* accuracy of the pipeline of that algorithm fitted on that training data
C11_SameOutcome ==
    (/\ last["op"] = "test_model"
     /\ test_data_file \in DOMAIN fs
     /\ model_file \in DOMAIN fs
     /\ fs[model_file] # <<>>)
    => LET bundle == fs[model_file][1]
           data   == fs[test_data_file][1]
       IN  /\ last["raised"] = "none"
           /\ last["value"] =
                  accuracy_score(Fitted("Pipeline", bundle["algorithm"],
                                        bundle["text"], bundle["stars"]),
                                 TextOf(data), StarsOf(data))

\* a step of train_model or train_model_pipe, and a step of test_model
\* (each call records its name in last)
TrainingStep == last'["op"] \in {"train_model", "train_model_pipe"}
TestStep == last'["op"] = "test_model"

\* C12: once both snapshot files are written, a call of train_model,
\* train_model_pipe or test_model leaves their content as it is; training
\* writes no file but the model file and evaluation writes no file
C12_SnapshotsUnchanged ==
    [][((TrainingStep \/ TestStep)
        /\ training_data_file \in DOMAIN fs
        /\ test_data_file \in DOMAIN fs) =>
          /\ DOMAIN fs' \subseteq DOMAIN fs \cup {model_file}
          /\ \A n \in DOMAIN fs \ {model_file} : n \in DOMAIN fs' /\ fs'[n] = fs[n]
          /\ TestStep => DOMAIN fs' = DOMAIN fs /\ \A n \in DOMAIN fs : fs'[n] = fs[n]]_vars

\* a model was trained and evaluated, and the snapshot files hold what
\* get_datasets wrote
C12_Witness ==
    /\ last["op"] = "test_model"
    /\ last["raised"] = "none"
    /\ fs[training_data_file] = <<SliceTo(CleanedList, Mid)>>
    /\ fs[test_data_file] = <<SliceFrom(CleanedList, Mid)>>
    /\ fs[model_file] # <<>>

\* the pipeline a call train_model_pipe(algorithm) fits on the training
\* snapshot
PipelineOf(algorithm) ==
    Fitted("Pipeline", algorithm, TextOf(fs[training_data_file][1]),
           StarsOf(fs[training_data_file][1]))

\* C13: the model file holds at most one model, a train_model_pipe call
\* that returns leaves its own model there, and an accuracy test_model
\* returns is that of the model fitted by the most recent training call,
\* which was a train_model_pipe call that returned
C13_EvaluatesLatestModel ==
    /\ model_file \in DOMAIN fs => Len(fs[model_file]) <= 1
    /\ (trained["op"] = "train_model_pipe" /\ trained["raised"] = "none") =>
           fs[model_file] = <<PipelineOf(trained["arg"])>>
    /\ (last["op"] = "test_model" /\ last["raised"] = "none") =>
           /\ trained["op"] = "train_model_pipe"
           /\ trained["raised"] = "none"
           /\ last["value"]["model"] = PipelineOf(trained["arg"])

\* test_model returned the accuracy of the DecisionTreeClassifier pipeline
\* trained last
C13_Witness ==
    /\ last["op"] = "test_model"
    /\ last["raised"] = "none"
    /\ trained["op"] = "train_model_pipe"
    /\ trained["arg"] = "DecisionTreeClassifier"
    /\ last["value"]["model"]["algorithm"] = "DecisionTreeClassifier"

\* the files are as they were
FilesUnchanged == DOMAIN fs' = DOMAIN fs /\ \A n \in DOMAIN fs : fs'[n] = fs[n]

\* C14 as stated: when the fit raises in train_model_pipe or train_model
\* while the model file holds a model, the file still holds that model
C14_FailedFitKeepsModel ==
    [][(TrainingStep
        /\ last'["raised"] = "ValueError"
        /\ model_file \in DOMAIN fs
        /\ fs[model_file] # <<>>) =>
          (model_file \in DOMAIN fs' /\ fs'[model_file] = fs[model_file])]_vars

\* C14 amended: a fit that raises inside the block that holds model_file
\* open (any fit of train_model_pipe, the algorithm's fit of train_model)
\* leaves the model file empty, a training that raises before that block
\* leaves the files as they are, and test_model on the empty model file
\* raises EOFError
C14_FailedFitEmptiesModelFile ==
    [][/\ (last'["op"] = "train_model_pipe" /\ last'["raised"] = "ValueError") =>
              (model_file \in DOMAIN fs' /\ fs'[model_file] = <<>>)
       /\ (last'["op"] = "train_model" /\ last'["raised"] = "ValueError") =>
              IF VectorizerFit(TextOf(fs[training_data_file][1])) = "none"
              THEN model_file \in DOMAIN fs' /\ fs'[model_file] = <<>>
              ELSE FilesUnchanged
       /\ (TrainingStep /\ last'["raised"] \notin {"none", "ValueError"}) =>
              FilesUnchanged
       /\ (TestStep /\ model_file \in DOMAIN fs /\ fs[model_file] = <<>>) =>
              last'["raised"] = "EOFError"]_vars

\* test_model raised EOFError after a training whose fit raised
C14_Witness ==
    /\ last["op"] = "test_model"
    /\ last["raised"] = "EOFError"
    /\ trained["raised"] = "ValueError"
    /\ trained["arg"] = "SGDClassifier"
    /\ fs[model_file] = <<>>

(***************************************************************************)
(* Word boundaries (checked under SpecClean).                              *)
(***************************************************************************)
\* ASCII punctuation
IsPunctuation(c) ==
    \/ (33 <= c /\ c <= 47)
    \/ (58 <= c /\ c <= 64)
    \/ (91 <= c /\ c <= 96)
    \/ (123 <= c /\ c <= 126)

IsLetter(c) == 97 <= c /\ c <= 122

\* the words of s: the maximal runs of characters that are neither white
\* space nor punctuation
RECURSIVE InputWordsFrom(_, _)
InputWordsFrom(s, cur) ==
    IF s = <<>> THEN (IF cur = <<>> THEN <<>> ELSE <<cur>>)
    ELSE IF IsSpace(Head(s)) \/ IsPunctuation(Head(s))
         THEN (IF cur = <<>> THEN <<>> ELSE <<cur>>) \o InputWordsFrom(Tail(s), <<>>)
         ELSE InputWordsFrom(Tail(s), Append(cur, Head(s)))

InputWords(s) == InputWordsFrom(s, <<>>)

\* C15: every word of the cleaned text is the lowercase letters of one
\* single word of the text given, where white space (space, newline, tab)
\* and punctuation separate words
C15_WordBoundariesKept ==
    step = "cleaned" =>
        \A w \in Range(Words(review["text"])) \ {<<>>} :
            \E v \in Range(InputWords(given)) : w = SelectSeq(lower(v), IsLetter)

====
